---- MODULE Spec2Model ----
(***************************************************************************)
(* Model of the DrawingWidget of the computational-geometry toolkit        *)
(* (src/Function.cpp, declarations in src/unnamed/part_001) and of the     *)
(* menu wiring of MainWindow (src/unnamed/part_000).                       *)
(*                                                                         *)
(* Clicked points are QPoint values, i.e. pairs of integers <<x, y>>.      *)
(* Intersection points computed by the Weiler-Atherton code are doubles;   *)
(* they are modelled as exact rationals <<n, d>> (d > 0, lowest terms).    *)
(* On the bounded integer inputs used here every quantity the code         *)
(* compares with an epsilon (1e-9, 1e-10) is either exactly 0 or at least  *)
(* 1/d for a small d, and the rounding error of the double arithmetic is   *)
(* of the order 1e-15, so "abs(v) < eps" is modelled as "v = 0" and        *)
(* "t > eps /\ t < 1 - eps" as "0 < t < 1".                                *)
(***************************************************************************)
EXTENDS Integers, Sequences, FiniteSets, TLC

(***************************************************************************)
(* Bounds of the model and the input alphabets.                            *)
(***************************************************************************)
\* longest click sequence per container in the interactive specification
MaxClicks == 4
\* most points handed to the hull algorithms in SpecHull
MaxHullPoints == 4
\* most vertices of a polygon handed to the triangulation in SpecTri
MaxTriVertices == 4

\* the positions the mouse can click in the interactive specification
ClickPoints == { <<0, 0>>, <<2, 0>> }
\* the 3 x 3 grid: the points of SpecHull and SpecTri
GridPoints == { <<x, y>> : x \in 0..2, y \in 0..2 }

\* how far (in steps of 2) polygon B is shifted in SpecWA
MaxShift == 2

SeqsUpTo(S, lo, hi) == UNION { [1..n -> S] : n \in lo..hi }

(***************************************************************************)
(* Arithmetic helpers: exact rationals for the code's doubles.             *)
(***************************************************************************)
Abs(v) == IF v < 0 THEN -v ELSE v

RECURSIVE GCD(_, _)
GCD(a, b) == IF b = 0 THEN a ELSE GCD(b, a % b)

QNorm(n, d) ==
    LET s == IF d < 0 THEN -1 ELSE 1
        g == GCD(Abs(n), Abs(d))
    IN  << (s * n) \div g, (s * d) \div g >>

Q(n) == << n, 1 >>
QAdd(a, b) == QNorm(a[1] * b[2] + b[1] * a[2], a[2] * b[2])
QSub(a, b) == QNorm(a[1] * b[2] - b[1] * a[2], a[2] * b[2])
QMul(a, b) == QNorm(a[1] * b[1], a[2] * b[2])
QDiv(a, b) == QNorm(a[1] * b[2], a[2] * b[1])
QNeg(a) == << -a[1], a[2] >>
QLt(a, b) == a[1] * b[2] < b[1] * a[2]
QAbs(a) == << Abs(a[1]), a[2] >>
QZero == << 0, 1 >>
QOne == << 1, 1 >>

\* a QPoint seen as a QPointF
ToQ(p) == << Q(p[1]), Q(p[2]) >>
ToQSeq(s) == [k \in 1..Len(s) |-> ToQ(s[k])]

Front(s) == SubSeq(s, 1, Len(s) - 1)
ReverseSeq(s) == [k \in 1..Len(s) |-> s[Len(s) + 1 - k]]
RemoveAt(s, k) == SubSeq(s, 1, k - 1) \o SubSeq(s, k + 1, Len(s))
InsertAt(s, k, e) == SubSeq(s, 1, k - 1) \o << e >> \o SubSeq(s, k, Len(s))
Range(s) == { s[k] : k \in 1..Len(s) }
Min2(a, b) == IF a < b THEN a ELSE b
Max2(a, b) == IF a > b THEN a ELSE b
\* element i (0-based, as in the code) of a QVector
At(s, i) == s[i + 1]

(***************************************************************************)
(* Geometric predicates on integer points.                                 *)
(***************************************************************************)
crossProduct(p1, p2, p3) ==
    (p2[1] - p1[1]) * (p3[2] - p1[2]) - (p2[2] - p1[2]) * (p3[1] - p1[1])

onSegment(a, b, c) ==
    IF \/ c[1] < Min2(a[1], b[1]) \/ c[1] > Max2(a[1], b[1])
       \/ c[2] < Min2(a[2], b[2]) \/ c[2] > Max2(a[2], b[2])
    THEN FALSE
    ELSE crossProduct(a, b, c) = 0

segmentsIntersect_TouchCounts(p1, p2, q1, q2) ==
    LET o1 == crossProduct(p1, p2, q1)
        o2 == crossProduct(p1, p2, q2)
        o3 == crossProduct(q1, q2, p1)
        o4 == crossProduct(q1, q2, p2)
    IN  IF /\ ((o1 > 0 /\ o2 < 0) \/ (o1 < 0 /\ o2 > 0))
           /\ ((o3 > 0 /\ o4 < 0) \/ (o3 < 0 /\ o4 > 0))
        THEN TRUE
        ELSE IF o1 = 0 /\ onSegment(p1, p2, q1) THEN TRUE
        ELSE IF o2 = 0 /\ onSegment(p1, p2, q2) THEN TRUE
        ELSE IF o3 = 0 /\ onSegment(q1, q2, p1) THEN TRUE
        ELSE IF o4 = 0 /\ onSegment(q1, q2, p2) THEN TRUE
        ELSE FALSE

segmentsIntersect(p1, p2, q1, q2) ==
    LET o1 == crossProduct(p1, p2, q1)
        o2 == crossProduct(p1, p2, q2)
        o3 == crossProduct(q1, q2, p1)
        o4 == crossProduct(q1, q2, p2)
    IN  IF /\ ((o1 > 0 /\ o2 < 0) \/ (o1 < 0 /\ o2 > 0))
           /\ ((o3 > 0 /\ o4 < 0) \/ (o3 < 0 /\ o4 > 0))
        THEN TRUE
        ELSE IF o1 = 0 /\ onSegment(p1, p2, q1) /\ ~(q1 = p1 \/ q1 = p2) THEN TRUE
        ELSE IF o2 = 0 /\ onSegment(p1, p2, q2) /\ ~(q2 = p1 \/ q2 = p2) THEN TRUE
        ELSE IF o3 = 0 /\ onSegment(q1, q2, p1) /\ ~(p1 = q1 \/ p1 = q2) THEN TRUE
        ELSE IF o4 = 0 /\ onSegment(q1, q2, p2) /\ ~(p2 = q1 \/ p2 = q2) THEN TRUE
        ELSE FALSE

\* The loops return false at the first zero-length edge or intersecting pair
\* of non-adjacent edges, so the result is the conjunction over all i, j.
isSimplePolygon(poly) ==
    LET n == Len(poly)
    IN  IF n < 3 THEN TRUE
        ELSE IF n = 3 THEN TRUE
        ELSE /\ \A i \in 0..(n - 1) : At(poly, i) # At(poly, (i + 1) % n)
             /\ \A i \in 0..(n - 1) : \A j \in 0..(n - 1) :
                   \/ i = j \/ j = (i + 1) % n \/ i = (j + 1) % n
                   \/ ~segmentsIntersect(At(poly, i), At(poly, (i + 1) % n),
                                         At(poly, j), At(poly, (j + 1) % n))

RECURSIVE ShoelaceFrom(_, _)
ShoelaceFrom(pts, i) ==
    IF i >= Len(pts) THEN 0
    ELSE LET p1 == At(pts, i)
             p2 == At(pts, (i + 1) % Len(pts))
         IN  (p1[1] * p2[2] - p2[1] * p1[2]) + ShoelaceFrom(pts, i + 1)

\* the shoelace sum of the list without its last vertex
computeAreaSign_Open(pts) == ShoelaceFrom(Front(pts), 0)

computeAreaSign(pts) == ShoelaceFrom(pts, 0)

\* Triangle::contains on a triangle <<p1, p2, p3>>
contains(t, pt) ==
    LET totalArea == Abs(crossProduct(t[1], t[2], t[3]))
        area1 == Abs(crossProduct(pt, t[1], t[2]))
        area2 == Abs(crossProduct(pt, t[2], t[3]))
        area3 == Abs(crossProduct(pt, t[3], t[1]))
    IN  area1 + area2 + area3 - totalArea = 0

(***************************************************************************)
(* Convex hull algorithms.                                                 *)
(***************************************************************************)
AndrewLess(a, b) == a[1] < b[1] \/ (a[1] = b[1] /\ a[2] < b[2])

RECURSIVE PopNonLeft(_, _)
PopNonLeft(chain, p) ==
    IF Len(chain) >= 2 /\ crossProduct(chain[Len(chain) - 1], chain[Len(chain)], p) <= 0
    THEN PopNonLeft(Front(chain), p)
    ELSE chain

RECURSIVE PopRight(_, _)
PopRight(chain, p) ==
    IF Len(chain) >= 2 /\ crossProduct(chain[Len(chain) - 1], chain[Len(chain)], p) < 0
    THEN PopRight(Front(chain), p)
    ELSE chain

RECURSIVE BuildChain(_, _, _)
BuildChain(pts, k, chain) ==
    IF k > Len(pts) THEN chain
    ELSE BuildChain(pts, k + 1, Append(PopNonLeft(chain, pts[k]), pts[k]))

RECURSIVE BuildChainKeepCollinear(_, _, _)
BuildChainKeepCollinear(pts, k, chain) ==
    IF k > Len(pts) THEN chain
    ELSE BuildChainKeepCollinear(pts, k + 1, Append(PopRight(chain, pts[k]), pts[k]))

AndrewHull_KeepCollinear(pts) ==
    LET sortedPoints == SortSeq(pts, AndrewLess)
        lower == BuildChainKeepCollinear(sortedPoints, 1, << >>)
        upper == BuildChainKeepCollinear(ReverseSeq(sortedPoints), 1, << >>)
    IN  Front(lower) \o Front(upper)

\* the hull calculateConvexHull_Andrew stores for a point list of size >= 3
AndrewHull(pts) ==
    LET sortedPoints == SortSeq(pts, AndrewLess)
        lower == BuildChain(sortedPoints, 1, << >>)
        upper == BuildChain(ReverseSeq(sortedPoints), 1, << >>)
    IN  Front(lower) \o Front(upper)

RECURSIVE MinYIndexFrom(_, _, _)
MinYIndexFrom(pts, i, best) ==
    IF i >= Len(pts) THEN best
    ELSE IF \/ At(pts, i)[2] < At(pts, best)[2]
            \/ (At(pts, i)[2] = At(pts, best)[2] /\ At(pts, i)[1] < At(pts, best)[1])
         THEN MinYIndexFrom(pts, i + 1, i)
         ELSE MinYIndexFrom(pts, i + 1, best)

SwapAt(s, i, j) == [s EXCEPT ![i + 1] = At(s, j), ![j + 1] = At(s, i)]

DistSq(p0, a) == (p0[1] - a[1]) * (p0[1] - a[1]) + (p0[2] - a[2]) * (p0[2] - a[2])

GrahamLess(p0, a, b) ==
    LET order == crossProduct(p0, a, b)
    IN  IF order = 0 THEN DistSq(p0, a) < DistSq(p0, b) ELSE order > 0

GrahamSorted_NoPivot(pts) ==
    LET p0 == At(pts, 0)
    IN  << p0 >> \o SortSeq(Tail(pts), LAMBDA a, b : GrahamLess(p0, a, b))

\* tempPoints after the pivot swap and the polar sort
GrahamSorted(pts) ==
    LET swapped == SwapAt(pts, 0, MinYIndexFrom(pts, 1, 0))
        p0 == At(swapped, 0)
    IN  << p0 >> \o SortSeq(Tail(swapped), LAMBDA a, b : GrahamLess(p0, a, b))

GrahamHull_KeepCollinear(pts) ==
    LET tempPoints == GrahamSorted(pts)
    IN  IF Len(tempPoints) < 3 THEN tempPoints
        ELSE BuildChainKeepCollinear(tempPoints, 3,
                                     << At(tempPoints, 0), At(tempPoints, 1) >>)

\* the hull calculateConvexHull_Graham stores for a point list of size >= 3
GrahamHull(pts) ==
    LET tempPoints == GrahamSorted(pts)
    IN  IF Len(tempPoints) < 3 THEN tempPoints
        ELSE BuildChain(tempPoints, 3, << At(tempPoints, 0), At(tempPoints, 1) >>)

(***************************************************************************)
(* Predicates on QPointF values (pairs of rationals).                      *)
(***************************************************************************)
\* crossProduct on QPointF arguments
crossProductQ(p1, p2, p3) ==
    QSub(QMul(QSub(p2[1], p1[1]), QSub(p3[2], p1[2])),
         QMul(QSub(p2[2], p1[2]), QSub(p3[1], p1[1])))

NoHit == [hit |-> FALSE, point |-> << QZero, QZero >>, alpha |-> QZero]

getLineSegmentIntersection_WithEndpoints(p1, p2, p3, p4) ==
    LET d1x == QSub(p2[1], p1[1])
        d1y == QSub(p2[2], p1[2])
        d2x == QSub(p4[1], p3[1])
        d2y == QSub(p4[2], p3[2])
        ex == QSub(p3[1], p1[1])
        ey == QSub(p3[2], p1[2])
        det == QSub(QMul(d1x, d2y), QMul(d1y, d2x))
    IN  IF det = QZero THEN NoHit
        ELSE LET t == QDiv(QSub(QMul(ex, d2y), QMul(ey, d2x)), det)
                 u == QNeg(QDiv(QSub(QMul(d1x, ey), QMul(d1y, ex)), det))
             IN  IF ~QLt(t, QZero) /\ ~QLt(QOne, t) /\ ~QLt(u, QZero) /\ ~QLt(QOne, u)
                 THEN [hit |-> TRUE,
                       point |-> << QAdd(p1[1], QMul(t, d1x)), QAdd(p1[2], QMul(t, d1y)) >>,
                       alpha |-> t]
                 ELSE NoHit

\* std::nullopt is [hit |-> FALSE]; otherwise the point and out_alpha
getLineSegmentIntersection(p1, p2, p3, p4) ==
    LET d1x == QSub(p2[1], p1[1])
        d1y == QSub(p2[2], p1[2])
        d2x == QSub(p4[1], p3[1])
        d2y == QSub(p4[2], p3[2])
        ex == QSub(p3[1], p1[1])
        ey == QSub(p3[2], p1[2])
        det == QSub(QMul(d1x, d2y), QMul(d1y, d2x))
    IN  IF det = QZero THEN NoHit
        ELSE LET t == QDiv(QSub(QMul(ex, d2y), QMul(ey, d2x)), det)
                 u == QNeg(QDiv(QSub(QMul(d1x, ey), QMul(d1y, ex)), det))
             IN  IF QLt(QZero, t) /\ QLt(t, QOne) /\ QLt(QZero, u) /\ QLt(u, QOne)
                 THEN [hit |-> TRUE,
                       point |-> << QAdd(p1[1], QMul(t, d1x)), QAdd(p1[2], QMul(t, d1y)) >>,
                       alpha |-> t]
                 ELSE NoHit

RayToggles_ClosedSpan(point, pi, pj) ==
    /\ pi[2] # pj[2]
    /\ ~QLt(point[2], pi[2]) \/ ~QLt(point[2], pj[2])
    /\ ~QLt(pi[2], point[2]) \/ ~QLt(pj[2], point[2])
    /\ LET xi == QAdd(QDiv(QMul(QSub(pj[1], pi[1]), QSub(point[2], pi[2])),
                           QSub(pj[2], pi[2])), pi[1])
       IN  QLt(point[1], xi)

\* whether edge (p_i, p_j) toggles "inside" for the ray from point to the right
RayToggles(point, pi, pj) ==
    /\ QLt(point[2], pi[2]) # QLt(point[2], pj[2])
    /\ LET xi == QAdd(QDiv(QMul(QSub(pj[1], pi[1]), QSub(point[2], pi[2])),
                           QSub(pj[2], pi[2])), pi[1])
       IN  QLt(point[1], xi)

isPointInsidePolygon_Always(point, polygon) == Len(polygon) >= 3

isPointInsidePolygon(point, polygon) ==
    LET n == Len(polygon)
    IN  IF n < 3 THEN FALSE
        ELSE Cardinality({ i \in 0..(n - 1) :
                 RayToggles(point, At(polygon, i), At(polygon, (i + n - 1) % n)) }) % 2 = 1

(***************************************************************************)
(* Weiler-Atherton.  A VertexNode is a record; std::list is a sequence and *)
(* an iterator an index into it.  The neighbor iterator of an intersection *)
(* node is modelled by a pair number shared by the two nodes of the pair   *)
(* (0 for an original vertex).                                             *)
(***************************************************************************)
VertexNode(p) ==
    [point |-> p, is_intersection |-> FALSE, neighbor |-> 0,
     is_entering |-> FALSE, processed |-> FALSE, alpha |-> QZero]

IntersectionNode(p, pair, entering, a) ==
    [point |-> p, is_intersection |-> TRUE, neighbor |-> pair,
     is_entering |-> entering, processed |-> FALSE, alpha |-> a]

BuildList(poly) == [k \in 1..Len(poly) |-> VertexNode(ToQ(poly[k]))]

\* the polygon copy after the orientation step
Oriented(poly) == IF computeAreaSign(poly) > 0 THEN ReverseSeq(poly) ELSE poly

RECURSIVE InsertLoop_SameFlag(_, _, _, _, _, _)
InsertLoop_SameFlag(listA, listB, ia, na, ib, pairs) ==
    IF ia > Len(listA) THEN [listA |-> listA, listB |-> listB]
    ELSE IF ib > Len(listB)
         THEN InsertLoop_SameFlag(listA, listB, ia + 1,
                         IF ia + 1 >= Len(listA) THEN 1 ELSE ia + 2, 1, pairs)
         ELSE LET nb == IF ib = Len(listB) THEN 1 ELSE ib + 1
                  x == getLineSegmentIntersection(listA[ia].point, listA[na].point,
                                                  listB[ib].point, listB[nb].point)
              IN  IF x.hit
                  THEN LET cross == crossProductQ(<< QZero, QZero >>,
                                       << QSub(listA[na].point[1], listA[ia].point[1]),
                                          QSub(listA[na].point[2], listA[ia].point[2]) >>,
                                       << QSub(listB[nb].point[1], listB[ib].point[1]),
                                          QSub(listB[nb].point[2], listB[ib].point[2]) >>)
                           nodeA == IntersectionNode(x.point, pairs + 1,
                                                     QLt(QZero, cross), x.alpha)
                           nodeB == IntersectionNode(x.point, pairs + 1,
                                                     QLt(QZero, cross), QZero)
                           ia2 == IF na <= ia THEN ia + 1 ELSE ia
                           ib2 == IF nb <= ib THEN ib + 1 ELSE ib
                       IN  InsertLoop_SameFlag(InsertAt(listA, na, nodeA), InsertAt(listB, nb, nodeB),
                                      ia2, na + 1, ib2 + 1, pairs + 1)
                  ELSE InsertLoop_SameFlag(listA, listB, ia, na, ib + 1, pairs)

\* The insertion loops.  ia, ib are the positions of itA, itB; na is the
\* position of next_itA, fixed when the outer iteration starts and moved
\* only by the insertions in front of it.  pairs counts the nodes inserted.
RECURSIVE InsertLoop(_, _, _, _, _, _)
InsertLoop(listA, listB, ia, na, ib, pairs) ==
    IF ia > Len(listA) THEN [listA |-> listA, listB |-> listB]
    ELSE IF ib > Len(listB)
         THEN InsertLoop(listA, listB, ia + 1,
                         IF ia + 1 >= Len(listA) THEN 1 ELSE ia + 2, 1, pairs)
         ELSE LET nb == IF ib = Len(listB) THEN 1 ELSE ib + 1
                  x == getLineSegmentIntersection(listA[ia].point, listA[na].point,
                                                  listB[ib].point, listB[nb].point)
              IN  IF x.hit
                  THEN LET cross == crossProductQ(<< QZero, QZero >>,
                                       << QSub(listA[na].point[1], listA[ia].point[1]),
                                          QSub(listA[na].point[2], listA[ia].point[2]) >>,
                                       << QSub(listB[nb].point[1], listB[ib].point[1]),
                                          QSub(listB[nb].point[2], listB[ib].point[2]) >>)
                           nodeA == IntersectionNode(x.point, pairs + 1,
                                                     QLt(QZero, cross), x.alpha)
                           nodeB == IntersectionNode(x.point, pairs + 1,
                                                     QLt(cross, QZero), QZero)
                           ia2 == IF na <= ia THEN ia + 1 ELSE ia
                           ib2 == IF nb <= ib THEN ib + 1 ELSE ib
                       IN  InsertLoop(InsertAt(listA, na, nodeA), InsertAt(listB, nb, nodeB),
                                      ia2, na + 1, ib2 + 1, pairs + 1)
                  ELSE InsertLoop(listA, listB, ia, na, ib + 1, pairs)

\* listA and listB after the intersection-insertion phase
InsertPhase(polyA, polyB) ==
    InsertLoop(BuildList(polyA), BuildList(polyB), 1,
               IF Len(polyA) = 1 THEN 1 ELSE 2, 1, 0)

NeighborIndex(list, pair) ==
    CHOOSE k \in 1..Len(list) : list[k].is_intersection /\ list[k].neighbor = pair

RECURSIVE WalkLoop_LateGuard(_, _, _, _, _, _, _)
WalkLoop_LateGuard(lists, is_union, start, side, idx, loop_guard, current_result) ==
    LET max_loops == Len(lists[1]) + Len(lists[2]) + 3
        other == 3 - side
        node == lists[side][idx]
    IN  IF loop_guard + 1 > max_loops
        THEN [lists |-> lists, current_result |-> current_result]
        ELSE LET nbr == IF node.is_intersection
                        THEN NeighborIndex(lists[other], node.neighbor) ELSE 0
                 marked == IF node.is_intersection
                           THEN [lists EXCEPT ![side][idx].processed = TRUE,
                                              ![other][nbr].processed = TRUE]
                           ELSE [lists EXCEPT ![side][idx].processed = TRUE]
                 result2 == Append(current_result, node.point)
                 switch == node.is_intersection /\ (is_union # node.is_entering)
                 side2 == IF switch THEN other ELSE side
                 idx2 == IF switch THEN nbr ELSE idx
                 idx3 == IF idx2 + 1 > Len(lists[side2]) THEN 1 ELSE idx2 + 1
                 startNbr == NeighborIndex(lists[2], lists[1][start].neighbor)
             IN  IF /\ ~(side2 = 1 /\ idx3 = start)
                    /\ (~lists[1][start].is_intersection \/ ~(side2 = 2 /\ idx3 = startNbr))
                 THEN WalkLoop_LateGuard(marked, is_union, start, side2, idx3, loop_guard + 1, result2)
                 ELSE [lists |-> marked, current_result |-> result2]

\* One contour walk (the do-while loop).  lists = <<listA, listB>>; side and
\* idx are current_list and current_iter; start is the position of it_start
\* in listA.
RECURSIVE WalkLoop(_, _, _, _, _, _, _)
WalkLoop(lists, is_union, start, side, idx, loop_guard, current_result) ==
    LET max_loops == Len(lists[1]) + Len(lists[2]) + 1
        other == 3 - side
        node == lists[side][idx]
    IN  IF loop_guard + 1 > max_loops
        THEN [lists |-> lists, current_result |-> current_result]
        ELSE LET nbr == IF node.is_intersection
                        THEN NeighborIndex(lists[other], node.neighbor) ELSE 0
                 marked == IF node.is_intersection
                           THEN [lists EXCEPT ![side][idx].processed = TRUE,
                                              ![other][nbr].processed = TRUE]
                           ELSE [lists EXCEPT ![side][idx].processed = TRUE]
                 result2 == Append(current_result, node.point)
                 switch == node.is_intersection /\ (is_union # node.is_entering)
                 side2 == IF switch THEN other ELSE side
                 idx2 == IF switch THEN nbr ELSE idx
                 idx3 == IF idx2 + 1 > Len(lists[side2]) THEN 1 ELSE idx2 + 1
                 startNbr == NeighborIndex(lists[2], lists[1][start].neighbor)
             IN  IF /\ ~(side2 = 1 /\ idx3 = start)
                    /\ (~lists[1][start].is_intersection \/ ~(side2 = 2 /\ idx3 = startNbr))
                 THEN WalkLoop(marked, is_union, start, side2, idx3, loop_guard + 1, result2)
                 ELSE [lists |-> marked, current_result |-> result2]

\* the loop over it_start
RECURSIVE WalkAll(_, _, _, _)
WalkAll(lists, is_union, start, results) ==
    IF start > Len(lists[1]) THEN results
    ELSE LET node == lists[1][start]
         IN  IF ~node.is_intersection \/ node.processed
             THEN WalkAll(lists, is_union, start + 1, results)
             ELSE IF is_union = node.is_entering
             THEN WalkAll(lists, is_union, start + 1, results)
             ELSE LET w == WalkLoop(lists, is_union, start, 1, start, 0, << >>)
                  IN  WalkAll(w.lists, is_union, start + 1,
                              IF Len(w.current_result) > 2
                              THEN Append(results, w.current_result) ELSE results)

\* the containment / disjoint branch for an empty walk result
Fallback_NoContainment(polyA, polyB, opType) ==
    IF opType = "Intersection" THEN << >>
    ELSE << ToQSeq(polyA), ToQSeq(polyB) >>

Fallback(polyA, polyB, opType) ==
    LET a_in_b == isPointInsidePolygon(ToQ(At(polyA, 0)), ToQSeq(polyB))
        b_in_a == isPointInsidePolygon(ToQ(At(polyB, 0)), ToQSeq(polyA))
    IN  IF opType = "Intersection"
        THEN IF a_in_b THEN << ToQSeq(polyA) >>
             ELSE IF b_in_a THEN << ToQSeq(polyB) >>
             ELSE << >>
        ELSE IF a_in_b THEN << ToQSeq(polyB) >>
             ELSE IF b_in_a THEN << ToQSeq(polyA) >>
             ELSE << ToQSeq(polyA), ToQSeq(polyB) >>

\* the body of calculateBooleanOp_WeilerAtherton after its first statement,
\* run on the result container `results`
WeilerAthertonFrom(results, pA, pB, opType) ==
    IF Len(pA) < 3 \/ Len(pB) < 3 THEN results
    ELSE LET polyA == Oriented(pA)
             polyB == Oriented(pB)
             ins == InsertPhase(polyA, polyB)
             walked == WalkAll(<< ins.listA, ins.listB >>, opType = "Union", 1, results)
         IN  IF walked = << >> /\ polyA # << >> /\ polyB # << >>
             THEN Fallback(polyA, polyB, opType)
             ELSE walked

\* weilerResultPolygons after calculateBooleanOp_WeilerAtherton(opType):
\* the container is cleared first
WeilerAtherton(pA, pB, opType) == WeilerAthertonFrom(<< >>, pA, pB, opType)

(***************************************************************************)
(* State.  The members of DrawingWidget keep their names.  menusEnabled is *)
(* the enabled flag of MainWindow's intersectionMenu and unionMenu.  pc,   *)
(* remaining, attempts, maxAttempts and scan_i are the position and the    *)
(* locals of a running calculateTriangulation (reset when it returns).     *)
(* warning is the QMessageBox                                              *)
(* the last handler showed ("" for none) and lastCall the algorithm entry  *)
(* point most recently invoked since the last clearScreen.  probe holds    *)
(* the arguments and the return value of a helper function called on its   *)
(* own (SpecInside below).                                                 *)
(***************************************************************************)
VARIABLES currentMode, taskToPerform, convexHullAlgorithm, displayMode,
          polygonsReadyForOperation, showGrid, menusEnabled,
          points, convexHull, polygonVertices, polygonA, polygonB,
          triangles, polygonArea, triangleCount,
          intersectionPolygons, unionPath, weilerResultPolygons,
          pc, remaining, attempts, maxAttempts, scan_i,
          warning, lastCall,
          probe

modeVars == << currentMode, taskToPerform, convexHullAlgorithm, displayMode,
               polygonsReadyForOperation, showGrid, menusEnabled >>
inputVars == << points, polygonVertices, polygonA, polygonB >>
resultVars == << convexHull, triangles, polygonArea, triangleCount,
                 intersectionPolygons, unionPath, weilerResultPolygons >>
triVars == << pc, remaining, attempts, maxAttempts, scan_i >>
\* no helper function has been called on its own
NoProbe == [fn |-> "none"]

vars == << modeVars, inputVars, resultVars, triVars, warning, lastCall, probe >>

\* DrawingWidget::DrawingWidget and the member initialisers; createMenus
\* disables the two sub-menus.
Init ==
    /\ currentMode = "IDLE" /\ taskToPerform = "" /\ convexHullAlgorithm = ""
    /\ displayMode = "" /\ polygonsReadyForOperation = FALSE /\ showGrid = FALSE
    /\ menusEnabled = FALSE
    /\ points = << >> /\ convexHull = << >> /\ polygonVertices = << >>
    /\ polygonA = << >> /\ polygonB = << >>
    /\ triangles = << >> /\ polygonArea = << -1, 1 >> /\ triangleCount = -1
    /\ intersectionPolygons = << >> /\ unionPath = << >>
    /\ weilerResultPolygons = << >>
    /\ pc = "idle" /\ remaining = << >> /\ attempts = 0 /\ maxAttempts = 0
    /\ scan_i = 0
    /\ warning = "" /\ lastCall = "none"
    /\ probe = NoProbe

(***************************************************************************)
(* clearScreen, and setMode / setTask which run on top of it.  Cleared     *)
(* states the effect of clearScreen followed by the assignments the        *)
(* calling handler makes to currentMode, taskToPerform,                    *)
(* convexHullAlgorithm and showGrid.  emit polygonsReady(false) runs       *)
(* MainWindow::onPolygonsReady synchronously.                              *)
(***************************************************************************)
Cleared_KeepReady(mode, task, algorithm, grid, msg) ==
    /\ currentMode' = mode /\ taskToPerform' = task
    /\ convexHullAlgorithm' = algorithm /\ showGrid' = grid
    /\ points' = << >> /\ convexHull' = << >>
    /\ displayMode' = ""
    /\ polygonA' = << >> /\ polygonB' = << >>
    /\ intersectionPolygons' = << >> /\ unionPath' = << >>
    /\ polygonVertices' = << >> /\ triangles' = << >>
    /\ polygonArea' = << -1, 1 >> /\ triangleCount' = -1
    /\ warning' = msg /\ lastCall' = "none"
    /\ UNCHANGED << polygonsReadyForOperation, menusEnabled, weilerResultPolygons, triVars >>

Cleared(mode, task, algorithm, grid, msg) ==
    /\ currentMode' = mode /\ taskToPerform' = task
    /\ convexHullAlgorithm' = algorithm /\ showGrid' = grid
    /\ points' = << >> /\ convexHull' = << >>
    /\ polygonsReadyForOperation' = FALSE /\ displayMode' = ""
    /\ menusEnabled' = FALSE
    /\ polygonA' = << >> /\ polygonB' = << >>
    /\ intersectionPolygons' = << >> /\ unionPath' = << >>
    /\ polygonVertices' = << >> /\ triangles' = << >>
    /\ polygonArea' = << -1, 1 >> /\ triangleCount' = -1
    /\ warning' = msg /\ lastCall' = "none"
    /\ UNCHANGED << weilerResultPolygons, triVars >>

clearScreen == pc = "idle" /\ Cleared("IDLE", "", "", FALSE, "") /\ UNCHANGED probe

setMode(newMode) ==
    Cleared(newMode, IF newMode = "ADD_POINTS_CONVEX_HULL" THEN "convexHull" ELSE "",
            "", FALSE, "")

startAndrewConvexHull ==
    /\ pc = "idle" /\ Cleared("ADD_POINTS_CONVEX_HULL", "convexHull", "Andrew", FALSE, "")
    /\ UNCHANGED probe

startGrahamConvexHull ==
    /\ pc = "idle" /\ Cleared("ADD_POINTS_CONVEX_HULL", "convexHull", "Graham", FALSE, "")
    /\ UNCHANGED probe

\* the menu lambdas of MainWindow::createMenus
StartDrawing == pc = "idle" /\ setMode("DRAW_POLYGON_A") /\ UNCHANGED probe
TriangulateAction == pc = "idle" /\ Cleared("DRAW_POLYGON", "triangulate", "", FALSE, "") /\ UNCHANGED probe
AreaAction == pc = "idle" /\ Cleared("DRAW_POLYGON", "area", "", TRUE, "") /\ UNCHANGED probe

(***************************************************************************)
(* The algorithm entry points as steps of a handler.                       *)
(***************************************************************************)
Stay(msg) == warning' = msg /\ UNCHANGED << modeVars, inputVars, resultVars, triVars, lastCall >>

\* the entry point was invoked and returned at once
Returned(entry) ==
    /\ warning' = "" /\ lastCall' = entry
    /\ UNCHANGED << modeVars, inputVars, resultVars, triVars >>

calculateConvexHull_Andrew_NoSizeCheck ==
    /\ convexHull' = AndrewHull(points)
    /\ currentMode' = "IDLE"
    /\ warning' = "" /\ lastCall' = "calculateConvexHull_Andrew"
    /\ UNCHANGED << taskToPerform, convexHullAlgorithm, displayMode,
                    polygonsReadyForOperation, showGrid, menusEnabled, inputVars,
                    triangles, polygonArea, triangleCount, intersectionPolygons,
                    unionPath, weilerResultPolygons, triVars >>

calculateConvexHull_Andrew ==
    IF Len(points) < 3 THEN Returned("calculateConvexHull_Andrew")
    ELSE /\ convexHull' = AndrewHull(points)
         /\ currentMode' = "IDLE"
         /\ warning' = "" /\ lastCall' = "calculateConvexHull_Andrew"
         /\ UNCHANGED << taskToPerform, convexHullAlgorithm, displayMode,
                         polygonsReadyForOperation, showGrid, menusEnabled, inputVars,
                         triangles, polygonArea, triangleCount, intersectionPolygons,
                         unionPath, weilerResultPolygons, triVars >>

calculateConvexHull_Graham_KeepMode ==
    IF Len(points) < 3 THEN Returned("calculateConvexHull_Graham")
    ELSE /\ convexHull' = GrahamHull(points)
         /\ warning' = "" /\ lastCall' = "calculateConvexHull_Graham"
         /\ UNCHANGED << modeVars, inputVars, triangles, polygonArea, triangleCount,
                         intersectionPolygons, unionPath, weilerResultPolygons, triVars >>

calculateConvexHull_Graham ==
    IF Len(points) < 3 THEN Returned("calculateConvexHull_Graham")
    ELSE /\ convexHull' = GrahamHull(points)
         /\ currentMode' = "IDLE"
         /\ warning' = "" /\ lastCall' = "calculateConvexHull_Graham"
         /\ UNCHANGED << taskToPerform, convexHullAlgorithm, displayMode,
                         polygonsReadyForOperation, showGrid, menusEnabled, inputVars,
                         triangles, polygonArea, triangleCount, intersectionPolygons,
                         unionPath, weilerResultPolygons, triVars >>

calculatePolygonArea_KeepMode ==
    /\ polygonArea' = QNorm(Abs(computeAreaSign(polygonVertices)), 2)
    /\ warning' = "" /\ lastCall' = "calculatePolygonArea"
    /\ UNCHANGED << modeVars, inputVars, convexHull, triangles, triangleCount,
                    intersectionPolygons, unionPath, weilerResultPolygons, triVars >>

calculatePolygonArea ==
    /\ polygonArea' = QNorm(Abs(computeAreaSign(polygonVertices)), 2)
    /\ currentMode' = "IDLE"
    /\ warning' = "" /\ lastCall' = "calculatePolygonArea"
    /\ UNCHANGED << taskToPerform, convexHullAlgorithm, displayMode,
                    polygonsReadyForOperation, showGrid, menusEnabled, inputVars,
                    convexHull, triangles, triangleCount, intersectionPolygons,
                    unionPath, weilerResultPolygons, triVars >>

\* calculateTriangulation up to the head of the while loop
TriangulationSetup ==
    IF Len(polygonVertices) < 3 THEN Stay("triangulate: fewer than 3 vertices")
    ELSE IF ~isSimplePolygon(polygonVertices) THEN Stay("triangulate: polygon not valid")
    ELSE LET copy == polygonVertices
             open == IF copy # << >> /\ Head(copy) = copy[Len(copy)]
                     THEN Front(copy) ELSE copy
             ccw == IF computeAreaSign(open) < 0 THEN ReverseSeq(open) ELSE open
         IN  /\ remaining' = ccw
             /\ triangles' = << >>
             /\ attempts' = 0 /\ maxAttempts' = Len(ccw) * 2 /\ scan_i' = 0
             /\ pc' = "tri_while"
             /\ warning' = "" /\ lastCall' = "calculateTriangulation"
             /\ UNCHANGED << modeVars, inputVars, convexHull, polygonArea, triangleCount,
                             intersectionPolygons, unionPath, weilerResultPolygons >>

\* the test of the while loop and, when it fails, the code after the loop
TriWhile ==
    /\ pc = "tri_while"
    /\ UNCHANGED probe
    /\ IF Len(remaining) > 3 /\ attempts < maxAttempts
       THEN /\ pc' = "tri_for" /\ scan_i' = 0
            /\ UNCHANGED << modeVars, inputVars, resultVars, remaining, attempts,
                            maxAttempts, warning, lastCall >>
       ELSE /\ pc' = "idle" /\ remaining' = << >> /\ attempts' = 0
            /\ maxAttempts' = 0 /\ scan_i' = 0
            /\ UNCHANGED << taskToPerform, convexHullAlgorithm, displayMode,
                            polygonsReadyForOperation, showGrid, menusEnabled, inputVars,
                            convexHull, polygonArea, intersectionPolygons, unionPath,
                            weilerResultPolygons, lastCall >>
            /\ IF Len(remaining) = 3
               THEN /\ triangles' = Append(triangles,
                                           << remaining[1], remaining[2], remaining[3] >>)
                    /\ triangleCount' = Len(triangles) + 1
                    /\ currentMode' = "IDLE"
                    /\ UNCHANGED warning
               ELSE IF attempts >= maxAttempts
               THEN /\ triangles' = << >>
                    /\ warning' = "triangulate: cannot continue"
                    /\ UNCHANGED << currentMode, triangleCount >>
               ELSE UNCHANGED << triangles, triangleCount, currentMode, warning >>

IsValidEar_ConvexOnly(rem, i) ==
    LET n == Len(rem)
    IN  crossProduct(At(rem, i), At(rem, (i + 1) % n), At(rem, (i + 2) % n)) > 0

\* whether the triple starting at index i of the working list is a valid ear
IsValidEar(rem, i) ==
    LET n == Len(rem)
        ear == << At(rem, i), At(rem, (i + 1) % n), At(rem, (i + 2) % n) >>
    IN  /\ crossProduct(ear[1], ear[2], ear[3]) > 0
        /\ \A j \in 0..(n - 1) :
              (j # i /\ j # (i + 1) % n /\ j # (i + 2) % n) => ~contains(ear, At(rem, j))

\* one iteration of the for loop over the triples
TriFor ==
    /\ pc = "tri_for"
    /\ UNCHANGED probe
    /\ IF scan_i >= Len(remaining)
       THEN /\ pc' = "tri_while"
            /\ UNCHANGED << modeVars, inputVars, resultVars, remaining, attempts,
                            maxAttempts, scan_i, warning, lastCall >>
       ELSE IF IsValidEar(remaining, scan_i)
       THEN LET n == Len(remaining)
            IN  /\ triangles' = Append(triangles, << At(remaining, scan_i),
                                                     At(remaining, (scan_i + 1) % n),
                                                     At(remaining, (scan_i + 2) % n) >>)
                /\ remaining' = RemoveAt(remaining, ((scan_i + 1) % n) + 1)
                /\ attempts' = 0
                /\ pc' = "tri_while"
                /\ UNCHANGED << modeVars, inputVars, convexHull, polygonArea, triangleCount,
                                intersectionPolygons, unionPath, weilerResultPolygons,
                                maxAttempts, scan_i, warning, lastCall >>
       ELSE /\ scan_i' = scan_i + 1
            /\ UNCHANGED << modeVars, inputVars, resultVars, pc, remaining, attempts,
                            maxAttempts, warning, lastCall >>

QPainterPathResult(kind) == << kind, polygonA, polygonB >>

\* the Qt library computes the two results; they are kept as terms
calculateIntersectionAndUnion ==
    /\ intersectionPolygons' = QPainterPathResult("intersected")
    /\ unionPath' = QPainterPathResult("united")

calculateBooleanOp_WeilerAtherton_NoClear(opType) ==
    weilerResultPolygons' =
        WeilerAthertonFrom(weilerResultPolygons, polygonA, polygonB, opType)

calculateBooleanOp_WeilerAtherton(opType) ==
    weilerResultPolygons' = WeilerAtherton(polygonA, polygonB, opType)

(***************************************************************************)
(* Handlers.                                                               *)
(***************************************************************************)
performCalculation ==
    IF currentMode = "ADD_POINTS_CONVEX_HULL"
    THEN IF convexHullAlgorithm = "Andrew" THEN calculateConvexHull_Andrew
         ELSE IF convexHullAlgorithm = "Graham" THEN calculateConvexHull_Graham
         ELSE Stay("choose a hull algorithm")
    ELSE IF currentMode = "DRAW_POLYGON"
    THEN IF Len(polygonVertices) < 3 THEN Stay("polygon needs 3 vertices")
         ELSE IF ~isSimplePolygon(polygonVertices) THEN Stay("polygon not valid")
         ELSE IF taskToPerform = "triangulate" THEN TriangulationSetup
         ELSE IF taskToPerform = "area" THEN calculatePolygonArea
         ELSE Stay("")
    ELSE Stay("")

\* the "execute" menu action
Execute == pc = "idle" /\ performCalculation /\ UNCHANGED probe

LeftClick(p) ==
    /\ pc = "idle"
    /\ UNCHANGED probe
    /\ IF currentMode = "DRAW_POLYGON_A"
       THEN /\ Len(polygonA) < MaxClicks
            /\ polygonA' = Append(polygonA, p)
            /\ UNCHANGED << points, polygonVertices, polygonB >>
       ELSE IF currentMode = "DRAW_POLYGON_B"
       THEN /\ Len(polygonB) < MaxClicks
            /\ polygonB' = Append(polygonB, p)
            /\ UNCHANGED << points, polygonVertices, polygonA >>
       ELSE IF currentMode = "DRAW_POLYGON"
       THEN /\ Len(polygonVertices) < MaxClicks
            /\ polygonVertices' = Append(polygonVertices, p)
            /\ UNCHANGED << points, polygonA, polygonB >>
       ELSE IF currentMode = "ADD_POINTS_CONVEX_HULL"
       THEN /\ Len(points) < MaxClicks
            /\ points' = Append(points, p)
            /\ UNCHANGED << polygonVertices, polygonA, polygonB >>
       ELSE UNCHANGED inputVars
    /\ warning' = ""
    /\ UNCHANGED << modeVars, resultVars, triVars, lastCall >>

RightClick ==
    /\ pc = "idle"
    /\ UNCHANGED probe
    /\ IF currentMode = "DRAW_POLYGON_A" /\ Len(polygonA) >= 3
       THEN IF ~isSimplePolygon(polygonA)
            THEN Cleared("IDLE", "", "", FALSE, "polygon A self-intersects")
            ELSE /\ currentMode' = "DRAW_POLYGON_B"
                 /\ warning' = ""
                 /\ UNCHANGED << taskToPerform, convexHullAlgorithm, displayMode,
                                 polygonsReadyForOperation, showGrid, menusEnabled,
                                 inputVars, resultVars, triVars, lastCall >>
       ELSE IF currentMode = "DRAW_POLYGON_B" /\ Len(polygonB) >= 3
       THEN IF ~isSimplePolygon(polygonB)
            THEN Cleared("IDLE", "", "", FALSE, "polygon B self-intersects")
            ELSE /\ currentMode' = "IDLE"
                 /\ polygonsReadyForOperation' = TRUE
                 /\ menusEnabled' = TRUE
                 /\ warning' = ""
                 /\ UNCHANGED << taskToPerform, convexHullAlgorithm, displayMode,
                                 showGrid, inputVars, resultVars, triVars, lastCall >>
       ELSE IF currentMode = "DRAW_POLYGON" /\ Len(polygonVertices) >= 3
       THEN IF ~isSimplePolygon(polygonVertices)
            THEN Stay("polygon self-intersects")
            ELSE performCalculation
       ELSE IF currentMode = "ADD_POINTS_CONVEX_HULL" /\ Len(points) >= 3
       THEN performCalculation
       ELSE Stay("")

\* the four slots of the intersection / union sub-menus
ShowQPainterPath(mode) ==
    /\ pc = "idle" /\ menusEnabled
    /\ UNCHANGED probe
    /\ displayMode' = mode
    /\ calculateIntersectionAndUnion
    /\ warning' = "" /\ lastCall' = "calculateIntersectionAndUnion"
    /\ UNCHANGED << currentMode, taskToPerform, convexHullAlgorithm,
                    polygonsReadyForOperation, showGrid, menusEnabled, inputVars,
                    convexHull, triangles, polygonArea, triangleCount,
                    weilerResultPolygons, triVars >>

ShowWeiler(mode, opType) ==
    /\ pc = "idle" /\ menusEnabled
    /\ UNCHANGED probe
    /\ displayMode' = mode
    /\ calculateBooleanOp_WeilerAtherton(opType)
    /\ warning' = "" /\ lastCall' = opType
    /\ UNCHANGED << currentMode, taskToPerform, convexHullAlgorithm,
                    polygonsReadyForOperation, showGrid, menusEnabled, inputVars,
                    convexHull, triangles, polygonArea, triangleCount,
                    intersectionPolygons, unionPath, triVars >>

showIntersection_QPainterPath == ShowQPainterPath("intersection_qpath")
showUnion_QPainterPath == ShowQPainterPath("union_qpath")
showIntersection_Weiler == ShowWeiler("union_weiler", "Intersection")
showUnion_Weiler == ShowWeiler("intersection_weiler", "Union")

(***************************************************************************)
(* The interactive specification: every menu action and mouse click.       *)
(***************************************************************************)
Next ==
    \/ clearScreen
    \/ startAndrewConvexHull
    \/ startGrahamConvexHull
    \/ StartDrawing
    \/ TriangulateAction
    \/ AreaAction
    \/ Execute
    \/ \E p \in ClickPoints : LeftClick(p)
    \/ RightClick
    \/ showIntersection_QPainterPath
    \/ showUnion_QPainterPath
    \/ showIntersection_Weiler
    \/ showUnion_Weiler
    \/ TriWhile
    \/ TriFor

Spec == Init /\ [][Next]_vars

(***************************************************************************)
(* SpecHull: the hull algorithms on every point list over the grid.  The   *)
(* initial states are those reached by a hull menu action and left clicks. *)
(***************************************************************************)
Untouched ==
    /\ displayMode = "" /\ convexHull = << >>
    /\ triangles = << >> /\ polygonArea = << -1, 1 >> /\ triangleCount = -1
    /\ intersectionPolygons = << >> /\ unionPath = << >>
    /\ weilerResultPolygons = << >>
    /\ pc = "idle" /\ remaining = << >> /\ attempts = 0 /\ maxAttempts = 0
    /\ scan_i = 0
    /\ warning = "" /\ lastCall = "none"
    /\ probe = NoProbe

InitHull ==
    /\ currentMode = "ADD_POINTS_CONVEX_HULL" /\ taskToPerform = "convexHull"
    /\ convexHullAlgorithm \in { "Andrew", "Graham" }
    /\ polygonsReadyForOperation = FALSE /\ showGrid = FALSE /\ menusEnabled = FALSE
    /\ points \in SeqsUpTo(GridPoints, 0, MaxHullPoints)
    /\ polygonVertices = << >> /\ polygonA = << >> /\ polygonB = << >>
    /\ Untouched

NextHull == Execute \/ RightClick

SpecHull == InitHull /\ [][NextHull]_vars

(***************************************************************************)
(* SpecTri: triangulation and area on every vertex list over the grid.     *)
(* The initial states are those reached by the triangulation or area menu  *)
(* action and left clicks.  FairSpecTri adds that a running handler keeps  *)
(* executing.                                                              *)
(***************************************************************************)
Square10 == << <<0, 0>>, <<10, 0>>, <<10, 10>>, <<0, 10>> >>

InitTri ==
    /\ currentMode = "DRAW_POLYGON" /\ taskToPerform \in { "triangulate", "area" }
    /\ convexHullAlgorithm = ""
    /\ polygonsReadyForOperation = FALSE /\ showGrid = (taskToPerform = "area")
    /\ menusEnabled = FALSE
    /\ polygonVertices \in SeqsUpTo(GridPoints, 0, MaxTriVertices) \cup { Square10 }
    /\ points = << >> /\ polygonA = << >> /\ polygonB = << >>
    /\ Untouched

NextTri == Execute \/ RightClick \/ TriWhile \/ TriFor

SpecTri == InitTri /\ [][NextTri]_vars

FairSpecTri == SpecTri /\ WF_vars(TriWhile) /\ WF_vars(TriFor)

(***************************************************************************)
(* SpecWA: the Weiler-Atherton slots on pairs of validated polygons.  The  *)
(* initial states are those reached by drawing A and B and two accepting   *)
(* right clicks.  A is a base shape; B is a base shape shifted by a        *)
(* multiple of 2 in x and y; both in every rotation of the vertex list and *)
(* in both directions.                                                     *)
(***************************************************************************)
ShapesA ==
    { << <<0, 0>>, <<4, 0>>, <<4, 4>>, <<0, 4>> >>,
      << <<0, 0>>, <<4, 0>>, <<0, 4>> >> }

ShapesB ==
    { << <<0, 0>>, <<4, 0>>, <<4, 4>>, <<0, 4>> >>,
      << <<1, 1>>, <<3, 1>>, <<3, 3>>, <<1, 3>> >>,
      << <<-1, -1>>, <<5, -1>>, <<5, 5>>, <<-1, 5>> >>,
      << <<-1, 1>>, <<5, 1>>, <<5, 3>>, <<-1, 3>> >>,
      << <<1, 1>>, <<3, 1>>, <<1, 1>> >> }

Rotate(s, r) == [k \in 1..Len(s) |-> s[((k - 1 + r) % Len(s)) + 1]]
Variants(s) == { Rotate(s, r) : r \in 0..(Len(s) - 1) }
                \cup { ReverseSeq(Rotate(s, r)) : r \in 0..(Len(s) - 1) }
Shift(s, dx, dy) == [k \in 1..Len(s) |-> << s[k][1] + dx, s[k][2] + dy >>]

PolygonsA == UNION { Variants(s) : s \in ShapesA }
Shifts == (0..MaxShift) \X (0..MaxShift)
PolygonsB ==
    { Shift(v, 2 * k[1], 2 * k[2]) : v \in UNION { Variants(s) : s \in ShapesB }, k \in Shifts }

InitWA ==
    /\ currentMode = "IDLE" /\ taskToPerform = "" /\ convexHullAlgorithm = ""
    /\ polygonsReadyForOperation = TRUE /\ showGrid = FALSE /\ menusEnabled = TRUE
    /\ polygonA \in { p \in PolygonsA : isSimplePolygon(p) }
    /\ polygonB \in { p \in PolygonsB : isSimplePolygon(p) }
    /\ points = << >> /\ polygonVertices = << >>
    /\ Untouched

NextWA == showIntersection_Weiler \/ showUnion_Weiler

SpecWA == InitWA /\ [][NextWA]_vars

(***************************************************************************)
(* SpecInside: isPointInsidePolygon called on every point of a 7 x 7 grid  *)
(* and every vertex list of at most MaxInsideVertices vertices with even   *)
(* coordinates on that grid, so that points lie inside polygons, on their  *)
(* edges and level with their vertices.                                    *)
(***************************************************************************)
MaxInsideVertices == 4

InsidePoints == (-1..5) \X (-1..5)
InsideVertices == { 0, 2, 4 } \X { 0, 2, 4 }

Call_isPointInsidePolygon ==
    /\ probe = NoProbe
    /\ \E point \in InsidePoints :
       \E polygon \in SeqsUpTo(InsideVertices, 0, MaxInsideVertices) :
          probe' = [fn |-> "isPointInsidePolygon", point |-> point, polygon |-> polygon,
                    result |-> isPointInsidePolygon(ToQ(point), ToQSeq(polygon))]
    /\ UNCHANGED << modeVars, inputVars, resultVars, triVars, warning, lastCall >>

NextInside == Call_isPointInsidePolygon

SpecInside == Init /\ [][NextInside]_vars

(***************************************************************************)
(* SpecSegment: getLineSegmentIntersection called on every two segments    *)
(* with endpoints on the grid (segments of length zero included).          *)
(***************************************************************************)
Call_getLineSegmentIntersection ==
    /\ probe = NoProbe
    /\ \E p1, p2, p3, p4 \in GridPoints :
          probe' = [fn |-> "getLineSegmentIntersection",
                    p1 |-> p1, p2 |-> p2, p3 |-> p3, p4 |-> p4,
                    result |-> getLineSegmentIntersection(ToQ(p1), ToQ(p2), ToQ(p3), ToQ(p4))]
    /\ UNCHANGED << modeVars, inputVars, resultVars, triVars, warning, lastCall >>

NextSegment == Call_getLineSegmentIntersection

SpecSegment == Init /\ [][NextSegment]_vars

(***************************************************************************)
(* SpecCross: segmentsIntersect called on every two segments with          *)
(* endpoints on the grid (segments of length zero included).               *)
(***************************************************************************)
Call_segmentsIntersect ==
    /\ probe = NoProbe
    /\ \E p1, p2, q1, q2 \in GridPoints :
          probe' = [fn |-> "segmentsIntersect",
                    p1 |-> p1, p2 |-> p2, q1 |-> q1, q2 |-> q2,
                    result |-> segmentsIntersect(p1, p2, q1, q2)]
    /\ UNCHANGED << modeVars, inputVars, resultVars, triVars, warning, lastCall >>

NextCross == Call_segmentsIntersect

SpecCross == Init /\ [][NextCross]_vars

(***************************************************************************)
(* Properties of the interactive specification Spec.                       *)
(***************************************************************************)

\* C9: the two sub-menus are enabled exactly when polygonsReadyForOperation
\* is set, and then polygon A and polygon B both have at least 3 vertices,
\* are both accepted by isSimplePolygon, and the widget is in IDLE mode.
C9_OperationsOnlyOnValidatedPolygons ==
    /\ menusEnabled <=> polygonsReadyForOperation
    /\ polygonsReadyForOperation =>
          /\ Len(polygonA) >= 3 /\ Len(polygonB) >= 3
          /\ isSimplePolygon(polygonA) /\ isSimplePolygon(polygonB)
          /\ currentMode = "IDLE"

\* a Boolean operation has run on two accepted polygons
C9_Witness ==
    /\ polygonsReadyForOperation /\ menusEnabled
    /\ lastCall = "Intersection" /\ displayMode # ""

\* C10: whenever triangles is non-empty or polygonArea is non-negative,
\* polygonVertices has at least 3 vertices and is accepted by isSimplePolygon.
C10_ResultsImplyValidatedPolygon ==
    (triangles # << >> \/ polygonArea[1] >= 0) =>
        /\ Len(polygonVertices) >= 3
        /\ isSimplePolygon(polygonVertices)

\* a triangulation has returned with triangles on a list of MaxClicks - 1
\* vertices, so that one more click would have been possible
C10_Witness ==
    /\ triangles # << >> /\ pc = "idle" /\ lastCall = "calculateTriangulation"
    /\ Len(polygonVertices) >= 3 /\ Len(polygonVertices) < MaxClicks

(***************************************************************************)
(* Properties of the hull algorithms, under SpecHull.                      *)
(***************************************************************************)
NotAllCollinear(pts) ==
    \E i, j, k \in 1..Len(pts) : crossProduct(pts[i], pts[j], pts[k]) # 0

HullReturned ==
    lastCall \in { "calculateConvexHull_Andrew", "calculateConvexHull_Graham" }

\* C6: for at least three input points that are not all collinear
\* (duplicates allowed), the hull stored by the chosen algorithm has the
\* same vertex set as the hull either algorithm computes from the input.
C6_AndrewGrahamSameVertexSet ==
    (HullReturned /\ Len(points) >= 3 /\ NotAllCollinear(points)) =>
        /\ Range(convexHull) = Range(AndrewHull(points))
        /\ Range(convexHull) = Range(GrahamHull(points))

\* Graham has run on four points, one duplicated and three on one line
C6_Witness ==
    /\ lastCall = "calculateConvexHull_Graham"
    /\ Len(points) = MaxHullPoints /\ NotAllCollinear(points)
    /\ Cardinality(Range(points)) < Len(points)
    /\ Cardinality(Range(convexHull)) = 3

\* C7: for at least three input points that are not all collinear and the
\* hull h_0 .. h_(k-1) stored by either algorithm, every input point p has
\* crossProduct(h_i, h_((i+1) mod k), p) >= 0 for every i, and every hull
\* vertex is an input point.
C7_HullContainsInput ==
    (HullReturned /\ Len(points) >= 3 /\ NotAllCollinear(points)) =>
        LET k == Len(convexHull)
        IN  /\ \A i \in 0..(k - 1) : \A p \in Range(points) :
                  crossProduct(At(convexHull, i), At(convexHull, (i + 1) % k), p) >= 0
            /\ Range(convexHull) \subseteq Range(points)

\* a hull has been stored and some input point is not one of its vertices
C7_Witness ==
    /\ HullReturned /\ NotAllCollinear(points) /\ Len(convexHull) >= 3
    /\ \E p \in Range(points) : p \notin Range(convexHull)

(***************************************************************************)
(* Properties of triangulation and of the validator, under SpecTri and     *)
(* FairSpecTri.                                                            *)
(***************************************************************************)
Accepted(poly) == Len(poly) >= 3 /\ isSimplePolygon(poly)

TriangulationRunning == pc # "idle"

TriangulationReturned == lastCall = "calculateTriangulation" /\ pc = "idle"

\* C1: calculateTriangulation, once started on a polygon of at least 3
\* vertices that isSimplePolygon accepts, returns (by emitting the final
\* triangle or by aborting when the attempt budget is exhausted).
C1_TriangulationTerminates == TriangulationRunning ~> (pc = "idle")

RECURSIVE SumAreas2(_)
SumAreas2(ts) ==
    IF ts = << >> THEN 0
    ELSE Abs(crossProduct(Head(ts)[1], Head(ts)[2], Head(ts)[3])) + SumAreas2(Tail(ts))

\* C2: when calculateTriangulation has run on an accepted polygon of n
\* vertices, triangles holds n-2 triangles, triangleCount is n-2 and the
\* triangle areas add up to the shoelace area (doubled areas are compared).
C2_TriangleCountAndArea ==
    (TriangulationReturned /\ Accepted(polygonVertices)) =>
        /\ Len(triangles) = Len(polygonVertices) - 2
        /\ triangleCount = Len(polygonVertices) - 2
        /\ SumAreas2(triangles) = Abs(computeAreaSign(polygonVertices))

HasZeroLengthEdge(poly) ==
    /\ Len(poly) >= 2
    /\ \E i \in 0..(Len(poly) - 1) : At(poly, i) = At(poly, (i + 1) % Len(poly))

\* the open segments p1p2 and q1q2 cross in a single interior point
ProperlyCross(p1, p2, q1, q2) ==
    /\ crossProduct(p1, p2, q1) * crossProduct(p1, p2, q2) < 0
    /\ crossProduct(q1, q2, p1) * crossProduct(q1, q2, p2) < 0

HasCrossingEdges(poly) ==
    LET n == Len(poly)
    IN  \E i, j \in 0..(n - 1) :
           /\ i # j /\ (i + 1) % n # j /\ (j + 1) % n # i
           /\ ProperlyCross(At(poly, i), At(poly, (i + 1) % n),
                            At(poly, j), At(poly, (j + 1) % n))

\* C8: isSimplePolygon returns false for every list with a zero-length edge
\* and for every list in which two non-adjacent edges cross.
C8_ValidatorRejectsDefects ==
    (HasZeroLengthEdge(polygonVertices) \/ HasCrossingEdges(polygonVertices)) =>
        ~isSimplePolygon(polygonVertices)

(***************************************************************************)
(* Properties of the Weiler-Atherton operation, under SpecWA.              *)
(***************************************************************************)
SquareA == << <<0, 0>>, <<4, 0>>, <<4, 4>>, <<0, 4>> >>
SquareB == << <<2, 2>>, <<6, 2>>, <<6, 6>>, <<2, 6>> >>
SquareAB == << <<2, 2>>, <<4, 2>>, <<4, 4>>, <<2, 4>> >>

RECURSIVE ShoelaceQFrom(_, _)
ShoelaceQFrom(c, i) ==
    IF i > Len(c) THEN QZero
    ELSE LET p1 == c[i]
             p2 == c[(i % Len(c)) + 1]
         IN  QAdd(QSub(QMul(p1[1], p2[2]), QMul(p2[1], p1[2])), ShoelaceQFrom(c, i + 1))

\* the area a stored contour encloses
AreaQ(c) == QDiv(QAbs(ShoelaceQFrom(c, 1)), Q(2))

\* contour c lists the vertices of poly, from any start, in either direction
SameContour(c, poly) == c \in Variants(ToQSeq(poly))

\* C3: for the two overlapping squares, Intersection stores exactly one
\* contour, the square (2,2),(4,2),(4,4),(2,4) up to rotation and direction,
\* and Union stores a contour that encloses area 28.
C3_OverlappingSquares ==
    (polygonA = SquareA /\ polygonB = SquareB) =>
        /\ lastCall = "Intersection" =>
              /\ Len(weilerResultPolygons) = 1
              /\ SameContour(weilerResultPolygons[1], SquareAB)
        /\ lastCall = "Union" =>
              \E k \in 1..Len(weilerResultPolygons) :
                  AreaQ(weilerResultPolygons[k]) = Q(28)

InBox(a, b, c) ==
    /\ Min2(a[1], b[1]) <= c[1] /\ c[1] <= Max2(a[1], b[1])
    /\ Min2(a[2], b[2]) <= c[2] /\ c[2] <= Max2(a[2], b[2])

\* the closed segments p1p2 and q1q2 have a point in common
SegmentsMeet(p1, p2, q1, q2) ==
    \/ ProperlyCross(p1, p2, q1, q2)
    \/ crossProduct(q1, q2, p1) = 0 /\ InBox(q1, q2, p1)
    \/ crossProduct(q1, q2, p2) = 0 /\ InBox(q1, q2, p2)
    \/ crossProduct(p1, p2, q1) = 0 /\ InBox(p1, p2, q1)
    \/ crossProduct(p1, p2, q2) = 0 /\ InBox(p1, p2, q2)

BoundariesMeet(pa, pb) ==
    \E i \in 0..(Len(pa) - 1), j \in 0..(Len(pb) - 1) :
        SegmentsMeet(At(pa, i), At(pa, (i + 1) % Len(pa)),
                     At(pb, j), At(pb, (j + 1) % Len(pb)))

\* the edges of poly that a vertical ray going up from p crosses
EdgesAbove(p, poly) ==
    { i \in 0..(Len(poly) - 1) :
        LET a == At(poly, i)
            b == At(poly, (i + 1) % Len(poly))
        IN  \/ a[1] <= p[1] /\ p[1] < b[1] /\ crossProduct(a, b, p) < 0
            \/ b[1] <= p[1] /\ p[1] < a[1] /\ crossProduct(b, a, p) < 0 }

\* p, not on the boundary of poly, is in the interior of poly
Interior(p, poly) == Cardinality(EdgesAbove(p, poly)) % 2 = 1

LiesInside(inner, outer) ==
    /\ ~BoundariesMeet(inner, outer)
    /\ \A k \in 1..Len(inner) : Interior(inner[k], outer)

NoOverlap(pa, pb) ==
    /\ ~BoundariesMeet(pa, pb)
    /\ \A k \in 1..Len(pa) : ~Interior(pa[k], pb)
    /\ \A k \in 1..Len(pb) : ~Interior(pb[k], pa)

\* C4: for accepted polygons whose boundaries do not meet and neither of
\* which contains the other, Union stores exactly two contours, the vertices
\* of A and the vertices of B, and Intersection stores nothing.
C4_DisjointPolygons ==
    NoOverlap(polygonA, polygonB) =>
        /\ lastCall = "Union" =>
              /\ Len(weilerResultPolygons) = 2
              /\ SameContour(weilerResultPolygons[1], polygonA)
              /\ SameContour(weilerResultPolygons[2], polygonB)
        /\ lastCall = "Intersection" => weilerResultPolygons = << >>

\* Union has stored two contours for a disjoint pair
C4_Witness ==
    /\ NoOverlap(polygonA, polygonB) /\ lastCall = "Union"
    /\ Len(weilerResultPolygons) = 2 /\ displayMode = "intersection_weiler"

\* C5: for accepted polygons with A inside B and boundaries that do not
\* meet, Intersection stores exactly one contour with the vertices of A and
\* Union exactly one with the vertices of B; the same with A and B exchanged.
C5_NestedPolygons ==
    /\ LiesInside(polygonA, polygonB) =>
          /\ lastCall = "Intersection" =>
                /\ Len(weilerResultPolygons) = 1
                /\ SameContour(weilerResultPolygons[1], polygonA)
          /\ lastCall = "Union" =>
                /\ Len(weilerResultPolygons) = 1
                /\ SameContour(weilerResultPolygons[1], polygonB)
    /\ LiesInside(polygonB, polygonA) =>
          /\ lastCall = "Intersection" =>
                /\ Len(weilerResultPolygons) = 1
                /\ SameContour(weilerResultPolygons[1], polygonB)
          /\ lastCall = "Union" =>
                /\ Len(weilerResultPolygons) = 1
                /\ SameContour(weilerResultPolygons[1], polygonA)

\* Intersection has stored one contour for a polygon A inside B
C5_Witness ==
    /\ LiesInside(polygonA, polygonB) /\ lastCall = "Intersection"
    /\ Len(weilerResultPolygons) = 1 /\ displayMode = "union_weiler"

(***************************************************************************)
(* Properties of calculatePolygonArea, under SpecTri.                      *)
(***************************************************************************)

\* C11: the area calculatePolygonArea stores is the area it computes for
\* every cyclic rotation of polygonVertices and for every rotation of the
\* reversed list, and it is not negative.
C11_AreaRotationReversalInvariant ==
    lastCall = "calculatePolygonArea" =>
        /\ polygonArea[1] >= 0
        /\ \A v \in Variants(polygonVertices) :
              polygonArea = QNorm(Abs(computeAreaSign(v)), 2)

\* a positive area has been stored for a list of four vertices
C11_Witness ==
    /\ lastCall = "calculatePolygonArea" /\ Len(polygonVertices) = 4
    /\ QLt(QZero, polygonArea) /\ currentMode = "IDLE"

(***************************************************************************)
(* Frame of the hull algorithms, under SpecHull (every step of SpecHull    *)
(* is the execute action or a right click in hull mode).                   *)
(***************************************************************************)

\* C12: a step that invokes a hull algorithm leaves points as it is, and
\* with fewer than 3 points it also leaves convexHull and currentMode as
\* they are.
C12_HullFrame ==
    [][ lastCall' \in { "calculateConvexHull_Andrew", "calculateConvexHull_Graham" } =>
           /\ points' = points
           /\ Len(points) < 3 => (convexHull' = convexHull /\ currentMode' = currentMode)
      ]_vars

\* Andrew's algorithm has been invoked on two points and has returned
C12_Witness ==
    /\ lastCall = "calculateConvexHull_Andrew" /\ Len(points) = 2
    /\ convexHull = << >> /\ currentMode = "ADD_POINTS_CONVEX_HULL"

(***************************************************************************)
(* Re-invocation of the Weiler-Atherton algorithm, under SpecWA.           *)
(***************************************************************************)

\* C13: every call of calculateBooleanOp_WeilerAtherton leaves in
\* weilerResultPolygons the result determined by polygonA, polygonB and the
\* requested operation alone, whatever the container held before and
\* whichever operation ran before, and leaves polygonA and polygonB as they
\* are.
C13_ResultOverwritten ==
    [][ lastCall' \in { "Intersection", "Union" } =>
           /\ weilerResultPolygons' = WeilerAtherton(polygonA, polygonB, lastCall')
           /\ polygonA' = polygonA /\ polygonB' = polygonB
      ]_vars

\* an edge of pA and an edge of pB cross in a point interior to both
EdgesCross(pA, pB) ==
    \E i \in 0..(Len(pA) - 1), j \in 0..(Len(pB) - 1) :
       ProperlyCross(At(pA, i), At(pA, (i + 1) % Len(pA)),
                     At(pB, j), At(pB, (j + 1) % Len(pB)))

\* a union has been computed for two polygons whose boundaries cross and
\* its single contour is stored
C13_Witness ==
    /\ lastCall = "Union" /\ Len(weilerResultPolygons) = 1
    /\ EdgesCross(polygonA, polygonB)

(***************************************************************************)
(* clearScreen, under Spec.                                                *)
(***************************************************************************)

\* C14: every clearScreen step ends in the reset state: mode IDLE, task,
\* hull algorithm and display mode empty, all point and polygon lists empty,
\* every stored boolean-operation result (intersection polygons, union path,
\* Weiler-Atherton result polygons) empty, polygonArea = -1,
\* triangleCount = -1, showGrid and polygonsReadyForOperation false.
C14_ClearScreenResetsAll ==
    [][ clearScreen =>
           /\ currentMode' = "IDLE" /\ taskToPerform' = ""
           /\ convexHullAlgorithm' = "" /\ displayMode' = ""
           /\ points' = << >> /\ convexHull' = << >>
           /\ polygonA' = << >> /\ polygonB' = << >>
           /\ polygonVertices' = << >> /\ triangles' = << >>
           /\ intersectionPolygons' = << >> /\ unionPath' = << >>
           /\ weilerResultPolygons' = << >>
           /\ polygonArea' = << -1, 1 >> /\ triangleCount' = -1
           /\ showGrid' = FALSE /\ polygonsReadyForOperation' = FALSE
      ]_vars

(***************************************************************************)
(* The Weiler-Atherton menu slots, under SpecWA.                           *)
(***************************************************************************)

\* C15: after showIntersection_Weiler, which runs the algorithm with
\* Intersection, displayMode is "intersection_weiler", and after
\* showUnion_Weiler, which runs it with Union, displayMode is "union_weiler":
\* the display mode names the operation whose result is stored.
C15_DisplayModeNamesOperation ==
    /\ lastCall = "Intersection" => displayMode = "intersection_weiler"
    /\ lastCall = "Union" => displayMode = "union_weiler"

(***************************************************************************)
(* Validation errors, under Spec.                                          *)
(***************************************************************************)

\* the warnings that report a rejected polygon A, polygon B or single polygon
ValidationWarnings ==
    { "polygon A self-intersects", "polygon B self-intersects",
      "polygon self-intersects", "polygon needs 3 vertices", "polygon not valid",
      "triangulate: fewer than 3 vertices", "triangulate: polygon not valid" }

NoResultStored ==
    /\ convexHull = << >> /\ triangles = << >>
    /\ polygonArea = << -1, 1 >> /\ triangleCount = -1
    /\ intersectionPolygons = << >> /\ unionPath = << >>
    /\ weilerResultPolygons = << >>

\* C16: when the last handler reported a validation error (polygon A,
\* polygon B or the single polygon self-intersecting, with a zero-length edge
\* or with too few vertices), the widget is back in the idle state:
\* currentMode is IDLE and no result is stored.
C16_ValidationErrorReturnsToIdle ==
    warning \in ValidationWarnings => (currentMode = "IDLE" /\ NoResultStored)

(***************************************************************************)
(* The node lists of the Weiler-Atherton algorithm, under SpecWA.          *)
(***************************************************************************)

DistSqQ(p, q) ==
    QAdd(QMul(QSub(p[1], q[1]), QSub(p[1], q[1])),
         QMul(QSub(p[2], q[2]), QSub(p[2], q[2])))

CyclicPrev(list, k) == IF k = 1 THEN Len(list) ELSE k - 1
CyclicNext(list, k) == IF k = Len(list) THEN 1 ELSE k + 1

\* the position of the start vertex of the original edge that node k lies on
RECURSIVE EdgeStart(_, _)
EdgeStart(list, k) ==
    IF ~list[k].is_intersection THEN k ELSE EdgeStart(list, CyclicPrev(list, k))

\* two intersection nodes that follow one another in the (cyclic) list lie
\* at increasing distance from the start vertex of their edge
OrderedAlongEdges(list) ==
    \A k \in 1..Len(list) :
       (list[k].is_intersection /\ list[CyclicNext(list, k)].is_intersection) =>
          QLt(DistSqQ(list[EdgeStart(list, k)].point, list[k].point),
              DistSqQ(list[EdgeStart(list, k)].point, list[CyclicNext(list, k)].point))

\* the node lists built by the last call of the algorithm
ListsOfLastCall == InsertPhase(Oriented(polygonA), Oriented(polygonB))

\* C17: after the insertion phase of a call, in the node list of A and in
\* the node list of B the intersection nodes on one original edge stand
\* between the edge's endpoints in increasing distance from the edge's start
\* vertex.
C17_NodesOrderedAlongEdge ==
    lastCall \in { "Intersection", "Union" } =>
        /\ OrderedAlongEdges(ListsOfLastCall.listA)
        /\ OrderedAlongEdges(ListsOfLastCall.listB)

\* the contours the walk of the last call extracted
WalkedOfLastCall ==
    WalkAll(<< ListsOfLastCall.listA, ListsOfLastCall.listB >>, lastCall = "Union", 1, << >>)

\* the insertion phase of the last call inserted at least one node
IntersectionFound ==
    \E k \in 1..Len(ListsOfLastCall.listA) : ListsOfLastCall.listA[k].is_intersection

\* the last call entered the containment / disjoint branch
FallbackApplied ==
    WalkedOfLastCall = << >> /\ polygonA # << >> /\ polygonB # << >>

\* C18: a call applies the containment / disjoint fallback exactly when its
\* insertion phase found no intersection, and when at least one node was
\* inserted the stored result is the list of contours extracted by the walk.
C18_FallbackIffNoIntersection ==
    lastCall \in { "Intersection", "Union" } =>
        /\ FallbackApplied <=> ~IntersectionFound
        /\ IntersectionFound => weilerResultPolygons = WalkedOfLastCall

\* the number of intersection nodes of a node list
NodeCount(list) == Cardinality({ k \in 1..Len(list) : list[k].is_intersection })

\* C19: a call ends: its insertion phase inserts at most one node pair per
\* pair of edges, and every contour it stores has at least 3 and at most
\* |listA| + |listB| + 1 points (list sizes after the insertion phase).
C19_BoundedInsertionAndContours ==
    lastCall \in { "Intersection", "Union" } =>
        LET lists == ListsOfLastCall
            nodesA == NodeCount(lists.listA)
            max_loops == Len(lists.listA) + Len(lists.listB) + 1
        IN  /\ nodesA <= Len(polygonA) * Len(polygonB)
            /\ NodeCount(lists.listB) = nodesA
            /\ Len(lists.listA) = Len(polygonA) + nodesA
            /\ Len(lists.listB) = Len(polygonB) + nodesA
            /\ \A c \in 1..Len(weilerResultPolygons) :
                  /\ Len(weilerResultPolygons[c]) >= 3
                  /\ Len(weilerResultPolygons[c]) <= max_loops

\* a call that inserted four node pairs has stored a contour extracted by
\* the walk
C19_Witness ==
    /\ lastCall = "Intersection"
    /\ NodeCount(ListsOfLastCall.listA) = 4
    /\ weilerResultPolygons # << >> /\ weilerResultPolygons = WalkedOfLastCall

(***************************************************************************)
(* The ears emitted by calculateTriangulation, under SpecTri.              *)
(***************************************************************************)

\* pt lies inside triangle t or on its boundary: it is not strictly on
\* different sides of two edges
InsideOrOnBoundary(t, pt) ==
    LET d1 == crossProduct(t[1], t[2], pt)
        d2 == crossProduct(t[2], t[3], pt)
        d3 == crossProduct(t[3], t[1], pt)
    IN  ~((d1 < 0 \/ d2 < 0 \/ d3 < 0) /\ (d1 > 0 \/ d2 > 0 \/ d3 > 0))

C21_HullStrictlyConvex ==
    (HullReturned /\ Len(points) >= 3 /\ NotAllCollinear(points)) =>
        LET k == Len(convexHull)
        IN  /\ k >= 3
            /\ Cardinality(Range(convexHull)) = k
            /\ \A i \in 0..(k - 1) :
                  crossProduct(At(convexHull, i), At(convexHull, (i + 1) % k),
                               At(convexHull, (i + 2) % k)) > 0

\* Graham has stored a triangle for four points of which three lie on one
\* line and none is repeated
C21_Witness ==
    /\ lastCall = "calculateConvexHull_Graham"
    /\ Len(points) = 4 /\ Cardinality(Range(points)) = 4
    /\ Len(convexHull) = 3
    /\ \E i, j, k \in 1..4 :
          /\ i < j /\ j < k
          /\ crossProduct(points[i], points[j], points[k]) = 0

(***************************************************************************)
(* isPointInsidePolygon, under SpecInside.                                 *)
(***************************************************************************)

\* p lies on an edge of poly
OnBoundary(p, poly) ==
    \E i \in 0..(Len(poly) - 1) :
       LET a == At(poly, i)
           b == At(poly, (i + 1) % Len(poly))
       IN  crossProduct(a, b, p) = 0 /\ InBox(a, b, p)

\* poly is a simple polygon: at least three vertices, no vertex twice, and
\* two edges have no point in common except the vertex shared by two
\* consecutive edges
SimplePolygon(poly) ==
    LET n == Len(poly)
    IN  /\ n >= 3
        /\ \A i, j \in 0..(n - 1) : i # j => At(poly, i) # At(poly, j)
        /\ \A i, j \in 0..(n - 1) :
              (i # j /\ (i + 1) % n # j /\ (j + 1) % n # i) =>
                 ~SegmentsMeet(At(poly, i), At(poly, (i + 1) % n),
                               At(poly, j), At(poly, (j + 1) % n))
        /\ \A i \in 0..(n - 1) :
              LET a == At(poly, i)
                  b == At(poly, (i + 1) % n)
                  c == At(poly, (i + 2) % n)
              IN  ~(crossProduct(a, b, c) = 0 /\ (InBox(a, b, c) \/ InBox(b, c, a)))

\* C22: isPointInsidePolygon returns false for every list of fewer than 3
\* vertices; for a simple polygon and a point not on its boundary it returns
\* true exactly when the point is in the interior, and it returns the same
\* for every rotation of the vertex list and of the reversed list.
C22_RayCastingDecidesInterior ==
    probe.fn = "isPointInsidePolygon" =>
        /\ Len(probe.polygon) < 3 => ~probe.result
        /\ (SimplePolygon(probe.polygon) /\ ~OnBoundary(probe.point, probe.polygon)) =>
              /\ probe.result <=> Interior(probe.point, probe.polygon)
              /\ \A v \in Variants(probe.polygon) :
                    isPointInsidePolygon(ToQ(probe.point), ToQSeq(v)) = probe.result

\* the call returned true for a point level with a vertex of a simple
\* polygon of four vertices
C22_Witness ==
    /\ probe.fn = "isPointInsidePolygon" /\ probe.result
    /\ Len(probe.polygon) = 4 /\ SimplePolygon(probe.polygon)
    /\ ~OnBoundary(probe.point, probe.polygon)
    /\ \E k \in 1..4 : probe.polygon[k][2] = probe.point[2]

(***************************************************************************)
(* getLineSegmentIntersection, under SpecSegment.                          *)
(***************************************************************************)

\* the rational point c lies on the closed segment from a to b (integer
\* endpoints)
OnSegmentQ(a, b, c) ==
    /\ crossProductQ(ToQ(a), ToQ(b), c) = QZero
    /\ ~QLt(c[1], Q(Min2(a[1], b[1]))) /\ ~QLt(Q(Max2(a[1], b[1])), c[1])
    /\ ~QLt(c[2], Q(Min2(a[2], b[2]))) /\ ~QLt(Q(Max2(a[2], b[2])), c[2])

\* C23: getLineSegmentIntersection returns none for parallel or collinear
\* segments and for segments that do not cross strictly inside both (so for
\* segments meeting only at an endpoint of either); when it returns a point,
\* the point lies on both segments, out_alpha is its parametric position on
\* the first segment and 0 < out_alpha < 1.
C23_StrictCrossingOnly ==
    probe.fn = "getLineSegmentIntersection" =>
        LET p1 == probe.p1
            p2 == probe.p2
            p3 == probe.p3
            p4 == probe.p4
            r == probe.result
            parallel == (p2[1] - p1[1]) * (p4[2] - p3[2])
                           - (p2[2] - p1[2]) * (p4[1] - p3[1]) = 0
        IN  /\ parallel => ~r.hit
            /\ ~ProperlyCross(p1, p2, p3, p4) => ~r.hit
            /\ r.hit =>
                  /\ OnSegmentQ(p1, p2, r.point) /\ OnSegmentQ(p3, p4, r.point)
                  /\ QLt(QZero, r.alpha) /\ QLt(r.alpha, QOne)
                  /\ r.point = << QAdd(Q(p1[1]), QMul(r.alpha, Q(p2[1] - p1[1]))),
                                  QAdd(Q(p1[2]), QMul(r.alpha, Q(p2[2] - p1[2]))) >>

\* the call returned a point that is not a grid point, a quarter of the way
\* along the first segment
C23_Witness ==
    /\ probe.fn = "getLineSegmentIntersection" /\ probe.result.hit
    /\ probe.result.alpha = << 1, 4 >>

(***************************************************************************)
(* segmentsIntersect, under SpecCross.                                     *)
(***************************************************************************)

\* e lies on the closed segment from a to b and is neither a nor b
OnSegmentNotEndpoint(a, b, e) ==
    crossProduct(a, b, e) = 0 /\ InBox(a, b, e) /\ e # a /\ e # b

InsideOrOnQ(p, poly) ==
    LET n == Len(poly)
        above == { i \in 0..(n - 1) :
                     LET a == ToQ(At(poly, i))
                         b == ToQ(At(poly, (i + 1) % n))
                     IN  \/ /\ ~QLt(p[1], a[1]) /\ QLt(p[1], b[1])
                            /\ QLt(crossProductQ(a, b, p), QZero)
                         \/ /\ ~QLt(p[1], b[1]) /\ QLt(p[1], a[1])
                            /\ QLt(crossProductQ(b, a, p), QZero) }
    IN  \/ \E i \in 0..(n - 1) : OnSegmentQ(At(poly, i), At(poly, (i + 1) % n), p)
        \/ Cardinality(above) % 2 = 1

\* C25: when the insertion phase of an Intersection call inserted at least
\* one node, every vertex of every stored contour lies inside or on the
\* boundary of polygonA and inside or on the boundary of polygonB.
C25_IntersectionContoursInsideBoth ==
    (lastCall = "Intersection" /\ IntersectionFound) =>
        \A c \in 1..Len(weilerResultPolygons) :
           \A k \in 1..Len(weilerResultPolygons[c]) :
              /\ InsideOrOnQ(weilerResultPolygons[c][k], polygonA)
              /\ InsideOrOnQ(weilerResultPolygons[c][k], polygonB)

(***************************************************************************)
(* Results and the idle mode, under Spec.                                  *)
(***************************************************************************)

\* C26: in every state between two handlers (pc = "idle"), a non-empty
\* convexHull, a non-empty triangles or a polygonArea >= 0 implies that
\* currentMode is IDLE; and a left click in IDLE mode changes none of
\* points, polygonVertices, polygonA and polygonB.
C26_ResultImpliesIdle ==
    /\ [](pc = "idle" =>
            ((convexHull # << >> \/ triangles # << >> \/ polygonArea[1] >= 0) =>
                currentMode = "IDLE"))
    /\ [][ (currentMode = "IDLE" /\ \E p \in ClickPoints : LeftClick(p)) =>
              UNCHANGED << points, polygonVertices, polygonA, polygonB >> ]_vars

\* Graham has returned: a hull is stored for the three points clicked and
\* the widget is in IDLE mode
C26_Witness ==
    /\ convexHull # << >> /\ currentMode = "IDLE" /\ Len(points) = 3
    /\ lastCall = "calculateConvexHull_Graham" /\ pc = "idle"

(***************************************************************************)
(* Pairing of the intersection nodes, under SpecWA.                        *)
(***************************************************************************)

\* the positions in list of the intersection nodes with pair number pair
NodesOfPair(list, pair) ==
    { k \in 1..Len(list) : list[k].is_intersection /\ list[k].neighbor = pair }

\* the direction of the original edge that node k of list lies on
EdgeDirection(list, k) ==
    LET from == list[EdgeStart(list, k)].point
        RECURSIVE EdgeEnd(_)
        EdgeEnd(j) == IF ~list[j].is_intersection THEN j ELSE EdgeEnd(CyclicNext(list, j))
        to == list[EdgeEnd(CyclicNext(list, k))].point
    IN  << QSub(to[1], from[1]), QSub(to[2], from[2]) >>

\* C27: after the insertion phase of a call every intersection node of one
\* list has exactly one partner in the other list, the partner carries the
\* same point, both lists hold the same number of intersection nodes, and
\* of the two is_entering flags of a pair exactly one is true: that of the
\* A-side node iff the cross product of the direction of A's edge with the
\* direction of B's edge is positive.
C27_NodesConsistentlyPaired ==
    lastCall \in { "Intersection", "Union" } =>
        LET lists == ListsOfLastCall
            listA == lists.listA
            listB == lists.listB
        IN  /\ NodeCount(listA) = NodeCount(listB)
            /\ \A k \in 1..Len(listB) :
                  listB[k].is_intersection =>
                     Cardinality(NodesOfPair(listA, listB[k].neighbor)) = 1
            /\ \A k \in 1..Len(listA) :
                  listA[k].is_intersection =>
                     /\ Cardinality(NodesOfPair(listB, listA[k].neighbor)) = 1
                     /\ \A m \in NodesOfPair(listB, listA[k].neighbor) :
                           /\ listB[m].point = listA[k].point
                           /\ listA[k].is_entering # listB[m].is_entering
                           /\ listA[k].is_entering <=>
                                 QLt(QZero,
                                     crossProductQ(<< QZero, QZero >>,
                                                   EdgeDirection(listA, k),
                                                   EdgeDirection(listB, m)))

\* a call has inserted four node pairs, two of them entering on the A side
C27_Witness ==
    /\ lastCall = "Union"
    /\ NodeCount(ListsOfLastCall.listA) = 4
    /\ Cardinality({ k \in 1..Len(ListsOfLastCall.listA) :
                       ListsOfLastCall.listA[k].is_entering }) = 2

====
